---- MODULE Spec2Model ----
(***************************************************************************)
(* The four one-shot scripts of METR-Compilation as one state machine: a  *)
(* run picks a script and executes it top to bottom.                      *)
(*   ACARS Sounding      (src/unnamed/part_000, lines 1-105)              *)
(*   HRRR Meteogram      (src/unnamed/part_000, lines 107-195)            *)
(*   RAOB Cross Section  (src/unnamed/part_000, lines 197-490)            *)
(*   Warning / LSR map   (src/Warning_LSR_2.py)                           *)
(* Text is a sequence of one-character strings, so that find, slicing,    *)
(* strip and split are computed position by position as Python does.      *)
(* A table cell is a record [t, n, s]: t = "num" with the number n,       *)
(* t = "nan" (the missing-value marker), or t = "str" with the text s.    *)
(***************************************************************************)
EXTENDS Integers, Sequences, FiniteSets, TLC

VARIABLES
    script,        \* which script this run executes
    pc,            \* position in the script
    err,           \* the exception that ended the run, "" while none
    requests,      \* the blocking network calls issued so far, in order
    data,          \* ACARS: the decoded response text
    lines,         \* ACARS: the lines of the data section still to be read
    df,            \* ACARS: the table built so far
    point_data,    \* HRRR: the rows of the point query's response
    it,            \* HRRR: rows of the original frame iterrows() still yields
    df_hrrr,       \* HRRR: the frame the name df is bound to
    stations,      \* RAOB: stations still to be requested
    df_raob,       \* RAOB: the list of (station, sounding) pairs fetched
    tmp_grid,      \* RAOB: the function's grid of vertically interpolated profiles
    xsect,         \* RAOB: what radisonde_cross_section returned
    df_wind,       \* LSR: the Speed column as read from the CSV
    Speed,         \* LSR: the Speed column as the script holds it
    i,             \* LSR: loop index of the running loop
    drawn,         \* LSR: the wind-report markers drawn, in order
    vcoord_data,   \* vertical_interpolate: observed pressures
    interp_var,    \* vertical_interpolate: observed values
    interp_levels, \* vertical_interpolate: grid levels
    interp_data    \* vertical_interpolate: the returned array

vars == <<script, pc, err, requests, data, lines, df, point_data, it, df_hrrr,
          stations, df_raob, tmp_grid, xsect, df_wind, Speed, i, drawn,
          vcoord_data, interp_var, interp_levels, interp_data>>

acarsVars == <<data, lines, df>>
hrrrVars == <<point_data, it, df_hrrr>>
raobVars == <<stations, df_raob, tmp_grid, xsect>>
lsrVars == <<df_wind, Speed, i, drawn>>
interpVars == <<vcoord_data, interp_var, interp_levels, interp_data>>

(***************************************************************************)
(* Bounds of the model.                                                    *)
(***************************************************************************)
MaxLines == 3      \* lines the ACARS response holds after %RAW%
MaxRows == 3       \* rows of the HRRR point-query response
MaxReports == 2    \* rows of the wind-report CSV
MaxObs == 3        \* observed levels of a profile given to vertical_interpolate

(***************************************************************************)
(* Cells and text.                                                         *)
(***************************************************************************)
Num(n) == [t |-> "num", n |-> n, s |-> <<>>]
NaN == [t |-> "nan", n |-> 0, s |-> <<>>]
Str(s) == [t |-> "str", n |-> 0, s |-> s]

Min(S) == CHOOSE x \in S : \A y \in S : x <= y

Whitespace == {" ", "\n"}
Digits == <<"0", "1", "2", "3", "4", "5", "6", "7", "8", "9">>
DigitSet == {Digits[d] : d \in 1..Len(Digits)}
DigitValue(c) == (CHOOSE d \in 1..Len(Digits) : Digits[d] = c) - 1

\* str.find(pat): the lowest 0-based index where pat occurs, -1 when it does not.
Find(s, pat) ==
    LET hits == {p \in 0..(Len(s) - Len(pat)) : SubSeq(s, p + 1, p + Len(pat)) = pat}
    IN  IF hits = {} THEN -1 ELSE Min(hits)

\* Python's s[a:b]: a negative bound counts from the end, both are clipped.
SliceBound(n, len) ==
    IF n < 0 THEN (IF n + len < 0 THEN 0 ELSE n + len)
    ELSE IF n > len THEN len ELSE n

Slice(s, a, b) ==
    LET lo == SliceBound(a, Len(s))
        hi == SliceBound(b, Len(s))
    IN  IF lo < hi THEN SubSeq(s, lo + 1, hi) ELSE <<>>

\* str.strip(): drops leading and trailing whitespace.
RECURSIVE LStrip(_)
LStrip(s) ==
    IF s /= <<>> /\ Head(s) \in Whitespace THEN LStrip(Tail(s)) ELSE s

RECURSIVE RStrip(_)
RStrip(s) ==
    IF s /= <<>> /\ s[Len(s)] \in Whitespace
    THEN RStrip(SubSeq(s, 1, Len(s) - 1)) ELSE s

Strip(s) == RStrip(LStrip(s))

\* str.split(sep) for a one-character separator: always at least one piece.
RECURSIVE Split(_, _)
Split(s, sep) ==
    LET hits == {p \in 1..Len(s) : s[p] = sep}
    IN  IF hits = {} THEN <<s>>
        ELSE <<SubSeq(s, 1, Min(hits) - 1)>>
             \o Split(SubSeq(s, Min(hits) + 1, Len(s)), sep)

\* Whether the text, surrounding whitespace aside, is a decimal number.
IsNumber(s) ==
    /\ Strip(s) /= <<>>
    /\ \A p \in 1..Len(Strip(s)) : Strip(s)[p] \in DigitSet

RECURSIVE DecimalValue(_)
DecimalValue(s) ==
    IF s = <<>> THEN 0
    ELSE 10 * DecimalValue(SubSeq(s, 1, Len(s) - 1)) + DigitValue(s[Len(s)])

(***************************************************************************)
(* ACARS Sounding.                                                         *)
(***************************************************************************)
RAW == <<"%", "R", "A", "W", "%">>
END == <<"%", "E", "N", "D", "%">>
Columns == <<"LEVEL", "HGHT", "TEMP", "DWPT", "WDIR", "WSPD">>

\* The responses the model draws: an optional title, the %RAW% marker or
\* none, up to MaxLines lines, the %END% marker or none, an optional tail.
\* Line number k starts with the digit k, so that rows can be told apart.
LineKinds == {"row", "short", "text", "blank"}
ResponseLine(kind, k) ==
    CASE kind = "row" -> <<" ", Digits[k + 1], ",", "0", ",", "0", ",", "0", ",", "0", ",", "0", "\n">>
      [] kind = "short" -> <<" ", Digits[k + 1], ",", "0", ",", "0", ",", "0", ",", "0", "\n">>
      [] kind = "text" -> <<" ", Digits[k + 1], ",", "x", ",", "0", ",", "0", ",", "0", ",", "0", "\n">>
      [] kind = "blank" -> <<" ", "\n">>

RECURSIVE ResponseBody(_, _)
ResponseBody(kinds, k) ==
    IF kinds = <<>> THEN <<>>
    ELSE ResponseLine(Head(kinds), k) \o ResponseBody(Tail(kinds), k + 1)

Title == <<"T", "\n">>
Responses ==
    {pre \o raw \o <<"\n">> \o ResponseBody(kinds, 1) \o end \o post :
        pre \in {<<>>, Title}, raw \in {<<>>, RAW},
        kinds \in UNION {[1..n -> LineKinds] : n \in 0..MaxLines},
        end \in {<<>>, END}, post \in {<<>>, <<"\n">>}}

\* Lines 28-35: the section between the markers, stripped, split into
\* lines, the first of them dropped.
DataSection(text) ==
    LET start_pos == Find(text, RAW) + Len(RAW)
        end_pos == Find(text, END)
    IN  Strip(Slice(text, start_pos, end_pos))

SectionLines(text) == Tail(Split(DataSection(text), "\n"))

\* Line 46: pd.to_numeric(errors='coerce') on one cell.
ToNumeric(field) ==
    IF IsNumber(field) THEN Num(DecimalValue(Strip(field))) ELSE NaN

\* Line 43 accepting a row of any width.
RowFitsAny(values) == Len(values) >= 0

\* Line 43: a one-row frame needs as many values as columns.
RowFits(values) == Len(values) = Len(Columns)

AcarsFetch ==
    /\ script = "ACARS" /\ pc = "fetch"
    /\ \E text \in Responses : data' = text
    /\ requests' = Append(requests, "acars_url")
    /\ pc' = "section"
    /\ UNCHANGED <<script, err, lines, df, hrrrVars, raobVars, lsrVars, interpVars>>

AcarsSection ==
    /\ script = "ACARS" /\ pc = "section"
    /\ lines' = SectionLines(data)
    /\ pc' = "rows"
    /\ UNCHANGED <<script, err, requests, data, df, hrrrVars, raobVars, lsrVars, interpVars>>

\* One pass of the loop of lines 39-44.
AcarsLine ==
    /\ script = "ACARS" /\ pc = "rows" /\ lines /= <<>>
    /\ LET line == Strip(Head(lines))
           values == Split(line, ",")
       IN  IF line = <<>>
           THEN /\ lines' = Tail(lines)
                /\ UNCHANGED <<df, pc, err>>
           ELSE IF RowFits(values)
           THEN /\ df' = Append(df, [c \in 1..Len(values) |-> Str(values[c])])
                /\ lines' = Tail(lines)
                /\ UNCHANGED <<pc, err>>
           ELSE /\ pc' = "error" /\ err' = "ValueError"
                /\ UNCHANGED <<df, lines>>
    /\ UNCHANGED <<script, requests, data, hrrrVars, raobVars, lsrVars, interpVars>>

\* Line 46.
AcarsToNumeric ==
    /\ script = "ACARS" /\ pc = "rows" /\ lines = <<>>
    /\ df' = [r \in 1..Len(df) |-> [c \in 1..Len(df[r]) |-> ToNumeric(df[r][c].s)]]
    /\ pc' = "compute"
    /\ UNCHANGED <<script, err, requests, data, lines, hrrrVars, raobVars, lsrVars, interpVars>>

\* Line 57 on: the table is handed to the computations; a frame that never
\* received a row has no LEVEL column.
AcarsCompute ==
    /\ script = "ACARS" /\ pc = "compute"
    /\ IF df = <<>>
       THEN pc' = "error" /\ err' = "KeyError"
       ELSE pc' = "done" /\ err' = err
    /\ UNCHANGED <<script, requests, data, lines, df, hrrrVars, raobVars, lsrVars, interpVars>>

(***************************************************************************)
(* HRRR Meteogram.                                                         *)
(***************************************************************************)
SingleAltitude == 100000
AltValues == {SingleAltitude, 92500}
TempValues == {280, 290}
PointRows == [alt : AltValues, Temperature_isobaric : TempValues]
PointResponses == UNION {[1..n -> PointRows] : n \in 0..MaxRows}

\* Line 146: pd.DataFrame(point_data) labels the rows 0, 1, ...
DataFrame(rows) ==
    [r \in 1..Len(rows) |->
        [index |-> r - 1, alt |-> rows[r].alt,
         Temperature_isobaric |-> rows[r].Temperature_isobaric]]

\* Line 153 dropping by position instead of by label.
DropRowAt(frame, label) ==
    [r \in 1..(Len(frame) - (IF label + 1 <= Len(frame) THEN 1 ELSE 0)) |->
        IF r < label + 1 THEN frame[r] ELSE frame[r + 1]]

\* Line 153: df.drop(index) returns the frame without the rows labelled index.
DropRow(frame, label) == SelectSeq(frame, LAMBDA row : row.index /= label)

\* Lines 155-160: reset_index(drop=True), then the Hours column.
ResetIndexWithHours(frame) ==
    [r \in 1..Len(frame) |->
        [index |-> r - 1, alt |-> frame[r].alt,
         Temperature_isobaric |-> frame[r].Temperature_isobaric,
         Hours |-> r - 1]]

\* Lines 133, 135 and 143: the catalog, the dataset's subset service and the
\* point query are three blocking calls.
HrrrCatalog ==
    /\ script = "HRRR" /\ pc = "fetch"
    /\ requests' = Append(requests, "hrrr_catalog")
    /\ pc' = "subset"
    /\ UNCHANGED <<script, err, acarsVars, hrrrVars, raobVars, lsrVars, interpVars>>

HrrrSubset ==
    /\ script = "HRRR" /\ pc = "subset"
    /\ requests' = Append(requests, "hrrr_ncss")
    /\ pc' = "query"
    /\ UNCHANGED <<script, err, acarsVars, hrrrVars, raobVars, lsrVars, interpVars>>

HrrrGetData ==
    /\ script = "HRRR" /\ pc = "query"
    /\ requests' = Append(requests, "hrrr_point_query")
    /\ \E rows \in PointResponses :
        /\ point_data' = rows
        /\ df_hrrr' = DataFrame(rows)
        /\ it' = DataFrame(rows)
    /\ pc' = "filter"
    /\ UNCHANGED <<script, err, acarsVars, raobVars, lsrVars, interpVars>>

\* One pass of the loop of lines 149-153: iterrows() walks the frame it
\* was called on while the name df is rebound to the shortened frame.
HrrrRow ==
    /\ script = "HRRR" /\ pc = "filter" /\ it /= <<>>
    /\ df_hrrr' = IF Head(it).alt /= SingleAltitude
                  THEN DropRow(df_hrrr, Head(it).index)
                  ELSE df_hrrr
    /\ it' = Tail(it)
    /\ UNCHANGED <<script, pc, err, requests, point_data, acarsVars, raobVars, lsrVars, interpVars>>

HrrrHours ==
    /\ script = "HRRR" /\ pc = "filter" /\ it = <<>>
    /\ df_hrrr' = ResetIndexWithHours(df_hrrr)
    /\ pc' = "done"
    /\ UNCHANGED <<script, err, requests, point_data, it, acarsVars, raobVars, lsrVars, interpVars>>

(***************************************************************************)
(* Warning / LSR map.                                                      *)
(***************************************************************************)
UNK == <<"U", "N", "K">>
HighWind == 65
SpeedTexts == {UNK, <<"6", "0">>, <<"6", "5">>, <<"7", "0">>, <<"x">>, <<>>}
WindResponses == UNION {[1..n -> SpeedTexts] : n \in 0..MaxReports}

\* Line 22: read_csv makes the column numeric when every field is a number
\* or empty, and leaves the fields as text otherwise; an empty field is NaN.
ReadSpeed(texts) ==
    LET numeric == \A r \in 1..Len(texts) : texts[r] = <<>> \/ IsNumber(texts[r])
    IN  [r \in 1..Len(texts) |->
            IF texts[r] = <<>> THEN NaN
            ELSE IF numeric THEN Num(DecimalValue(Strip(texts[r])))
            ELSE Str(texts[r])]

\* float(value) raises ValueError on text that is no number.
FloatRaises(value) == value.t = "str" /\ ~IsNumber(value.s)
Float(value) ==
    IF value.t = "str" THEN Num(DecimalValue(Strip(value.s))) ELSE value

\* Lines 29-30: the handler evaluates np.nan, and the script imports no np
\* (lines 1-10): the handler itself raises NameError.
NumpyImported == FALSE

\* Line 97.
IsHighWind(value) == value.t = "num" /\ value.n > HighWind

CsvUrls == <<"tor_url", "hail_url", "wind_url">>

\* Lines 14, 18 and 22: three CSV downloads.
LsrReadCsv ==
    /\ script = "LSR" /\ pc = "fetch"
    /\ requests' = Append(requests, CsvUrls[Len(requests) + 1])
    /\ IF Len(requests) + 1 = Len(CsvUrls)
       THEN /\ \E texts \in WindResponses :
                 /\ df_wind' = texts
                 /\ Speed' = ReadSpeed(texts)
            /\ pc' = "convert" /\ i' = 0
       ELSE UNCHANGED <<df_wind, Speed, pc, i>>
    /\ UNCHANGED <<script, err, drawn, acarsVars, hrrrVars, raobVars, interpVars>>

\* One pass of the loop of lines 24-30, and of its copy at lines 82-88.
LsrConvert ==
    /\ script = "LSR" /\ pc \in {"convert", "convert_again"} /\ i < Len(Speed)
    /\ LET value == Speed[i + 1]
       IN  IF value = Str(UNK)
           THEN /\ i' = i + 1
                /\ UNCHANGED <<Speed, pc, err>>
           ELSE IF ~FloatRaises(value)
           THEN /\ Speed' = [Speed EXCEPT ![i + 1] = Float(value)]
                /\ i' = i + 1
                /\ UNCHANGED <<pc, err>>
           ELSE IF NumpyImported
           THEN /\ Speed' = [Speed EXCEPT ![i + 1] = NaN]
                /\ i' = i + 1
                /\ UNCHANGED <<pc, err>>
           ELSE /\ pc' = "error" /\ err' = "NameError"
                /\ UNCHANGED <<Speed, i>>
    /\ UNCHANGED <<script, requests, df_wind, drawn, acarsVars, hrrrVars, raobVars, interpVars>>

\* Lines 32-34: the warnings request, after the first conversion loop.
LsrWarnings ==
    /\ script = "LSR" /\ pc = "convert" /\ i = Len(Speed)
    /\ requests' = Append(requests, "cow_url")
    /\ pc' = "convert_again" /\ i' = 0
    /\ UNCHANGED <<script, err, df_wind, Speed, drawn, acarsVars, hrrrVars, raobVars, interpVars>>

LsrStartPlot ==
    /\ script = "LSR" /\ pc = "convert_again" /\ i = Len(Speed)
    /\ pc' = "plot" /\ i' = 0
    /\ UNCHANGED <<script, err, requests, df_wind, Speed, drawn, acarsVars, hrrrVars, raobVars, interpVars>>

\* One pass of the loop of lines 96-100.
LsrPlotWind ==
    /\ script = "LSR" /\ pc = "plot" /\ i < Len(Speed)
    /\ drawn' = Append(drawn,
                       [row |-> i,
                        label |-> IF IsHighWind(Speed[i + 1])
                                  THEN "High Wind Report (65KT+)"
                                  ELSE "Wind Report"])
    /\ i' = i + 1
    /\ UNCHANGED <<script, pc, err, requests, df_wind, Speed, acarsVars, hrrrVars, raobVars, interpVars>>

LsrShow ==
    /\ script = "LSR" /\ pc = "plot" /\ i = Len(Speed)
    /\ pc' = "done"
    /\ UNCHANGED <<script, err, requests, lsrVars, acarsVars, hrrrVars, raobVars, interpVars>>

(***************************************************************************)
(* RAOB Cross Section.                                                     *)
(***************************************************************************)
\* np.log in thousandths, for the pressures 5, 10, ..., 1100 hPa:
\* LnTable[p \div 5] = round(1000 * ln p).
LnTable ==
    <<1609, 2303, 2708, 2996, 3219, 3401, 3555, 3689, 3807, 3912,
      4007, 4094, 4174, 4248, 4317, 4382, 4443, 4500, 4554, 4605,
      4654, 4700, 4745, 4787, 4828, 4868, 4905, 4942, 4977, 5011,
      5043, 5075, 5106, 5136, 5165, 5193, 5220, 5247, 5273, 5298,
      5323, 5347, 5371, 5394, 5416, 5438, 5460, 5481, 5501, 5521,
      5541, 5561, 5580, 5598, 5617, 5635, 5652, 5670, 5687, 5704,
      5720, 5737, 5753, 5768, 5784, 5799, 5814, 5829, 5844, 5858,
      5872, 5886, 5900, 5914, 5927, 5940, 5953, 5966, 5979, 5991,
      6004, 6016, 6028, 6040, 6052, 6064, 6075, 6087, 6098, 6109,
      6120, 6131, 6142, 6153, 6163, 6174, 6184, 6194, 6205, 6215,
      6225, 6234, 6244, 6254, 6263, 6273, 6282, 6292, 6301, 6310,
      6319, 6328, 6337, 6346, 6354, 6363, 6372, 6380, 6389, 6397,
      6405, 6413, 6422, 6430, 6438, 6446, 6454, 6461, 6469, 6477,
      6485, 6492, 6500, 6507, 6515, 6522, 6529, 6537, 6544, 6551,
      6558, 6565, 6572, 6579, 6586, 6593, 6600, 6607, 6613, 6620,
      6627, 6633, 6640, 6646, 6653, 6659, 6666, 6672, 6678, 6685,
      6691, 6697, 6703, 6709, 6715, 6721, 6727, 6733, 6739, 6745,
      6751, 6757, 6763, 6768, 6774, 6780, 6786, 6791, 6797, 6802,
      6808, 6813, 6819, 6824, 6830, 6835, 6841, 6846, 6851, 6856,
      6862, 6867, 6872, 6877, 6882, 6888, 6893, 6898, 6903, 6908,
      6913, 6918, 6923, 6928, 6932, 6937, 6942, 6947, 6952, 6957,
      6961, 6966, 6971, 6975, 6980, 6985, 6989, 6994, 6999, 7003>>

Log(p) == LnTable[p \div 5]

RECURSIVE Reverse(_)
Reverse(s) == IF s = <<>> THEN <<>> ELSE Append(Reverse(Tail(s)), Head(s))

\* np.interp(x, xp, fp) at one point, xp increasing: the end values outside
\* xp, linear between neighbours inside.
Interp(x, xp, fp) ==
    IF x <= xp[1] THEN fp[1]
    ELSE IF x >= xp[Len(xp)] THEN fp[Len(fp)]
    ELSE LET j == CHOOSE k \in 1..(Len(xp) - 1) : xp[k] <= x /\ x < xp[k + 1]
         IN  fp[j] + ((fp[j + 1] - fp[j]) * (x - xp[j])) \div (xp[j + 1] - xp[j])

\* Lines 259-262 with the two end values exchanged.
MaskedExchanged(levels, vcoord, var, interpolated) ==
    [j \in 1..Len(levels) |->
        IF levels[j] < vcoord[Len(vcoord)] THEN var[1]
        ELSE IF levels[j] > vcoord[1] THEN var[Len(var)]
        ELSE interpolated[j]]

\* Lines 259-262: mask_low is assigned first, mask_high after it.
Masked(levels, vcoord, var, interpolated) ==
    [j \in 1..Len(levels) |->
        IF levels[j] < vcoord[Len(vcoord)] THEN var[Len(var)]
        ELSE IF levels[j] > vcoord[1] THEN var[1]
        ELSE interpolated[j]]

\* np.interp over an array of points.
RECURSIVE InterpAll(_, _, _)
InterpAll(x, xp, fp) ==
    IF x = <<>> THEN <<>>
    ELSE <<Interp(Head(x), xp, fp)>> \o InterpAll(Tail(x), xp, fp)

\* Lines 236-264.
vertical_interpolate(vcoord, var, levels) ==
    LET lnp == [j \in 1..Len(vcoord) |-> Log(vcoord[j])]
        lnp_intervals == [j \in 1..Len(levels) |-> Log(levels[j])]
        interpolated ==
            Reverse(InterpAll(Reverse(lnp_intervals), Reverse(lnp), Reverse(var)))
    IN  Masked(levels, vcoord, var, interpolated)

\* np.arange(start, stop, step) for a negative step.
Arange(start, stop, step) ==
    LET n == IF start > stop THEN (start - stop + (-step) - 1) \div (-step) ELSE 0
    IN  [k \in 1..n |-> start + (k - 1) * step]

DefaultStart == 1000
DefaultEnd == 100
DefaultStep == 10
NumKeys == 8
NumX == 100

\* Line 373 with a station listed twice.
stn_list_repeated == <<"LBF", "OAX", "DVN", "DTX", "BUF", "LBF">>

\* Line 373.
stn_list == <<"LBF", "OAX", "DVN", "DTX", "BUF">>

\* The columns of a Wyoming sounding frame; the first NumKeys are arrays.
WyomingColumns ==
    <<"pressure", "height", "temperature", "dewpoint", "direction", "speed",
      "u_wind", "v_wind", "station", "station_number", "time", "latitude",
      "longitude", "elevation", "pw">>

\* The soundings the model draws for a station: one that starts above the
\* grid's first level and ends below its last, one that reaches beyond both.
SoundingPressures == {<<925, 700, 500, 200>>, <<1015, 850, 300, 75>>}
Sounding(ps) ==
    [key \in {WyomingColumns[c] : c \in 1..NumKeys} |->
        IF key = "pressure" THEN ps
        ELSE [j \in 1..Len(ps) |->
                 (CHOOSE c \in 1..NumKeys : WyomingColumns[c] = key) * 100 + ps[j] \div 25]]
Soundings == {Sounding(ps) : ps \in SoundingPressures}

\* Lines 359-360: the keys of the returned dictionary.
CrossSectionKeys == {"grid_data", "obs_distance", "x_grid", "p_grid", "elevation"}

\* Lines 304-305.
VerticalLevels(start, end, step) == Arange(start, end - 1, -step)

\* Lines 316-332: every key's profile of every station on the vertical grid.
TmpGrid(stns, frames, vertical_levels) ==
    [key \in {WyomingColumns[c] : c \in 1..NumKeys} |->
        [loc \in 1..Len(stns) |->
            IF key = "pressure" THEN vertical_levels
            ELSE vertical_interpolate(frames[loc]["pressure"], frames[loc][key],
                                      vertical_levels)]]

\* Lines 276-361.  stns is the station list, frames the soundings in the
\* same order.  What Geod.inv, height_to_pressure_std, np.meshgrid and
\* scipy's griddata return is kept as the shape of the array they return.
radisonde_cross_section(stns, frames, start, end, step) ==
    LET plevs == Len(VerticalLevels(start, end, step))
        nstns == Len(stns)
        nx == NumX
    IN  [key \in CrossSectionKeys |->
            CASE key = "grid_data" ->
                    [k \in DOMAIN TmpGrid(stns, frames, VerticalLevels(start, end, step)) |->
                        [shape |-> <<nx, plevs>>]]
              [] key = "obs_distance" -> [shape |-> <<nstns>>]
              [] key = "x_grid" -> [shape |-> <<nx, plevs>>]
              [] key = "p_grid" -> [shape |-> <<nx, plevs>>]
              [] key = "elevation" -> [shape |-> <<nstns>>]]

\* One pass of the loop of lines 392-393.
RaobRequest ==
    /\ script = "RAOB" /\ pc = "fetch" /\ stations /= <<>>
    /\ requests' = Append(requests, Head(stations))
    /\ \E sounding \in Soundings : df_raob' = Append(df_raob, sounding)
    /\ stations' = Tail(stations)
    /\ UNCHANGED <<script, pc, err, tmp_grid, xsect, acarsVars, hrrrVars, lsrVars, interpVars>>

\* Line 405.
RaobCrossSection ==
    /\ script = "RAOB" /\ pc = "fetch" /\ stations = <<>>
    /\ xsect' = radisonde_cross_section(stn_list, df_raob,
                                        DefaultStart, DefaultEnd, DefaultStep)
    /\ tmp_grid' = TmpGrid(stn_list, df_raob,
                           VerticalLevels(DefaultStart, DefaultEnd, DefaultStep))
    /\ pc' = "done"
    /\ UNCHANGED <<script, err, requests, stations, df_raob, acarsVars, hrrrVars, lsrVars, interpVars>>

(***************************************************************************)
(* vertical_interpolate called on its own.                                 *)
(***************************************************************************)
PressurePool == {1015, 925, 500, 200, 75}
ValuePool == {10, 20, 30}
LevelGrids == {Arange(1000, 99, -100), Arange(1050, 49, -250)}

\* The strictly decreasing sequences of n pressures of the pool.
DecreasingProfiles(n) ==
    {ps \in [1..n -> PressurePool] : \A j \in 1..(n - 1) : ps[j] > ps[j + 1]}

InterpCall ==
    /\ script = "vertical_interpolate" /\ pc = "call"
    /\ interp_data' = vertical_interpolate(vcoord_data, interp_var, interp_levels)
    /\ pc' = "returned"
    /\ UNCHANGED <<script, err, requests, vcoord_data, interp_var, interp_levels,
                   acarsVars, hrrrVars, raobVars, lsrVars>>

InitInterp ==
    /\ script = "vertical_interpolate"
    /\ pc = "call" /\ err = "" /\ requests = <<>>
    /\ data = <<>> /\ lines = <<>> /\ df = <<>>
    /\ point_data = <<>> /\ it = <<>> /\ df_hrrr = <<>>
    /\ stations = <<>> /\ df_raob = <<>> /\ tmp_grid = <<>> /\ xsect = <<>>
    /\ df_wind = <<>> /\ Speed = <<>> /\ i = 0 /\ drawn = <<>>
    /\ \E n \in 1..MaxObs :
        /\ vcoord_data \in DecreasingProfiles(n)
        /\ interp_var \in [1..n -> ValuePool]
    /\ interp_levels \in LevelGrids
    /\ interp_data = <<>>

NextInterp == InterpCall

SpecInterp == InitInterp /\ [][NextInterp]_vars

(***************************************************************************)
(* A run of one script.                                                    *)
(***************************************************************************)
Scripts == {"ACARS", "HRRR", "RAOB", "LSR"}

Init ==
    /\ script \in Scripts
    /\ pc = "fetch" /\ err = "" /\ requests = <<>>
    /\ data = <<>> /\ lines = <<>> /\ df = <<>>
    /\ point_data = <<>> /\ it = <<>> /\ df_hrrr = <<>>
    /\ stations = (IF script = "RAOB" THEN stn_list ELSE <<>>)
    /\ df_raob = <<>> /\ tmp_grid = <<>> /\ xsect = <<>>
    /\ df_wind = <<>> /\ Speed = <<>> /\ i = 0 /\ drawn = <<>>
    /\ vcoord_data = <<>> /\ interp_var = <<>> /\ interp_levels = <<>>
    /\ interp_data = <<>>

Next ==
    \/ AcarsFetch
    \/ AcarsSection
    \/ AcarsLine
    \/ AcarsToNumeric
    \/ AcarsCompute
    \/ HrrrCatalog
    \/ HrrrSubset
    \/ HrrrGetData
    \/ HrrrRow
    \/ HrrrHours
    \/ RaobRequest
    \/ RaobCrossSection
    \/ LsrReadCsv
    \/ LsrConvert
    \/ LsrWarnings
    \/ LsrStartPlot
    \/ LsrPlotWind
    \/ LsrShow

Spec == Init /\ [][Next]_vars

(***************************************************************************)
(* Properties.                                                             *)
(***************************************************************************)
StrictlyDecreasing(ps) == \A j \in 1..(Len(ps) - 1) : ps[j] > ps[j + 1]

\* C1: vertical_interpolate clamps out-of-range queries: for a profile
\* listed surface first, a grid level above the first observed pressure
\* gets interp_var[0] and one below the last observed pressure gets
\* interp_var[-1].
C1_ClampsOutOfRange ==
    (pc = "returned" /\ StrictlyDecreasing(vcoord_data)) =>
        \A j \in 1..Len(interp_levels) :
            /\ interp_levels[j] > vcoord_data[1] => interp_data[j] = interp_var[1]
            /\ interp_levels[j] < vcoord_data[Len(vcoord_data)]
                   => interp_data[j] = interp_var[Len(interp_var)]

C1_Witness ==
    /\ pc = "returned"
    /\ Len(vcoord_data) >= 2
    /\ interp_var[1] /= interp_var[Len(interp_var)]
    /\ \E j \in 1..Len(interp_levels) :
         interp_levels[j] > vcoord_data[1] /\ interp_data[j] = interp_var[1]
    /\ \E j \in 1..Len(interp_levels) :
         /\ interp_levels[j] < vcoord_data[Len(vcoord_data)]
         /\ interp_data[j] = interp_var[Len(interp_var)]

\* C2: with the default start, end and step every array of grid_data
\* has 100 horizontal points and 90 vertical points, 90 being the length
\* of the vertical level grid.
C2_DefaultGridShape ==
    (script = "RAOB" /\ pc = "done") =>
        /\ Len(VerticalLevels(DefaultStart, DefaultEnd, DefaultStep)) = 90
        /\ \A k \in DOMAIN xsect["grid_data"] :
               xsect["grid_data"][k].shape = <<100, 90>>

\* C3: the returned dictionary has the keys its docstring lists:
\* grid_data, obs_distance, x_grid, p_grid and ground_elevation.
C3_DocstringKeys ==
    (script = "RAOB" /\ pc = "done") =>
        DOMAIN xsect = {"grid_data", "obs_distance", "x_grid", "p_grid",
                        "ground_elevation"}

\* What the conversion loop is to leave in a cell: UNK unchanged, a number
\* for text that parses, the missing-value marker for text that does not.
ConvertedSpeed(value) ==
    IF value = Str(UNK) THEN value
    ELSE IF value.t /= "str" THEN value
    ELSE IF IsNumber(value.s) THEN Num(DecimalValue(Strip(value.s)))
    ELSE NaN

\* The number of cells the first conversion loop has dealt with.
Converted ==
    IF pc = "convert" THEN i
    ELSE IF pc \in {"convert_again", "plot", "done"} THEN Len(Speed)
    ELSE 0

\* C4: for every wind report the conversion loop has reached, a Speed that
\* is not UNK and does not parse is replaced by the missing-value marker and
\* the script goes on; a Speed that parses is replaced by its number and UNK
\* is left unchanged.
C4_GuardSubstitutesMarker ==
    script = "LSR" =>
        /\ pc /= "error"
        /\ \A r \in 1..Converted : Speed[r] = ConvertedSpeed(ReadSpeed(df_wind)[r])

\* The blocking network calls each script makes, in order.
ScriptCalls ==
    [s \in Scripts |->
        CASE s = "ACARS" -> <<"acars_url">>
          [] s = "HRRR" -> <<"hrrr_catalog", "hrrr_ncss", "hrrr_point_query">>
          [] s = "RAOB" -> <<"LBF", "OAX", "DVN", "DTX", "BUF">>
          [] s = "LSR" -> <<"tor_url", "hail_url", "wind_url", "cow_url">>]

RECURSIVE FieldsOfLines(_)
FieldsOfLines(ls) ==
    IF ls = <<>> THEN <<>>
    ELSE IF Strip(Head(ls)) = <<>> THEN FieldsOfLines(Tail(ls))
    ELSE <<Split(Strip(Head(ls)), ",")>> \o FieldsOfLines(Tail(ls))

\* A response with both markers, %RAW% first.
MarkersInOrder(text) ==
    /\ Find(text, RAW) >= 0
    /\ Find(text, END) >= Find(text, RAW) + Len(RAW)

\* The rows of the block between the two markers.
BlockRows(text) ==
    FieldsOfLines(Split(Slice(text, Find(text, RAW) + Len(RAW), Find(text, END)), "\n"))

SixNumbers(fields) ==
    Len(fields) = Len(Columns) /\ \A c \in 1..Len(fields) : IsNumber(fields[c])

NumericTable(rows) ==
    [r \in 1..Len(rows) |-> [c \in 1..Len(rows[r]) |-> ToNumeric(rows[r][c])]]

\* C6: the table is the block between the markers: every non-blank line
\* between %RAW% and %END% yields exactly one six-column row, in the order
\* of the lines, and nothing else yields a row.
C6_EveryBlockLineYieldsRow ==
    (/\ script = "ACARS" /\ pc \in {"compute", "done", "error"}
     /\ MarkersInOrder(data)
     /\ \A r \in 1..Len(BlockRows(data)) : SixNumbers(BlockRows(data)[r]))
        => df = NumericTable(BlockRows(data))

\* A response that is malformed in one of the ways C7 lists.
Malformed(text) ==
    \/ Find(text, RAW) = -1
    \/ Find(text, END) = -1
    \/ /\ MarkersInOrder(text)
       /\ \E r \in 1..Len(BlockRows(text)) : ~SixNumbers(BlockRows(text)[r])

\* C7 as stated: every malformed response ends the script with an error and
\* none yields a table that is passed on to the computations.
C7_MalformedTerminates ==
    (script = "ACARS" /\ pc = "done") => ~Malformed(data)

\* The lines the script reads, and whether one of them has no six fields.
ReadRows(text) == FieldsOfLines(SectionLines(text))
WrongWidth(text) ==
    \E r \in 1..Len(ReadRows(text)) : Len(ReadRows(text)[r]) /= Len(Columns)

\* C7 as amended: the script has no exception handler, and what ends it is
\* a line it reads that does not have exactly six comma-separated fields
\* (ValueError, no table), or no line to read at all (KeyError at the first
\* column access).  A missing marker is not detected and a field that is not
\* a number becomes NaN: such a response yields a table that is passed on.
C7_OnlyWidthTerminates ==
    script = "ACARS" =>
        /\ pc = "error" =>
              \/ err = "ValueError" /\ WrongWidth(data)
              \/ err = "KeyError" /\ ~WrongWidth(data) /\ ReadRows(data) = <<>>
        /\ pc \in {"compute", "done"} => ~WrongWidth(data)
        /\ pc = "done" => ReadRows(data) /= <<>> /\ df = NumericTable(ReadRows(data))

C7_Witness ==
    /\ script = "ACARS" /\ pc = "done"
    /\ Find(data, RAW) = -1
    /\ \E r \in 1..Len(df) : \E c \in 1..Len(df[r]) : df[r][c] = NaN

\* C8: after the row filter and the index reset every remaining row has
\* alt = 100000, every input row with alt = 100000 remains, in input order,
\* and Hours holds 0, 1, ..., n-1 in row order.
C8_SingleAltitude ==
    (script = "HRRR" /\ pc = "done") =>
        LET kept == SelectSeq(point_data, LAMBDA row : row.alt = 100000)
        IN  /\ Len(df_hrrr) = Len(kept)
            /\ \A r \in 1..Len(df_hrrr) :
                 /\ df_hrrr[r].alt = 100000
                 /\ df_hrrr[r].Temperature_isobaric = kept[r].Temperature_isobaric
                 /\ df_hrrr[r].index = r - 1
                 /\ df_hrrr[r].Hours = r - 1

C8_Witness ==
    /\ script = "HRRR" /\ pc = "done"
    /\ Len(point_data) = 3 /\ Len(df_hrrr) = 1
    /\ point_data[1].alt /= 100000 /\ point_data[2].alt /= 100000
    /\ df_hrrr[1].Temperature_isobaric = point_data[3].Temperature_isobaric
    /\ df_hrrr[1].Hours = 0

\* C9: every wind report is drawn exactly once, as a high wind report when
\* its speed is known and is 65 knots or more, as a wind report otherwise.
C9_LabelAtLeast65 ==
    (script = "LSR" /\ pc = "done") =>
        /\ Len(drawn) = Len(Speed)
        /\ \A r \in 1..Len(drawn) :
             /\ drawn[r].row = r - 1
             /\ drawn[r].label =
                    IF Speed[r].t = "num" /\ Speed[r].n >= 65
                    THEN "High Wind Report (65KT+)" ELSE "Wind Report"
====
